---- MODULE Spec2Model ----
(***************************************************************************)
(* Model of hewnyo/nutri-cluster: src/src/preprocess.py (text              *)
(* normalisation, keyword features, row filtering, need scoring) and       *)
(* src/src/api.py (fetch_food_data).                                       *)
(*                                                                         *)
(* A Python str is a sequence of one-character strings; a Hangul syllable  *)
(* is written by its code point ("U+BA5C").  A cell of a DataFrame is a    *)
(* tagged record: NoneV, StrV(s), IntV(n), Ts(d), NaT.                       *)
(***************************************************************************)
EXTENDS Integers, Sequences, FiniteSets, TLC

VARIABLES
  norm,     \* the call chain _norm(_norm(s)): input, results, position
  pc,       \* position of the pipeline: "raw", "preprocessed", "recommended" ("idle": unused)
  df_raw,   \* the caller's raw table, as the caller sees it
  pre,      \* what preprocess_for_reco was given and what it returned
  reco,     \* what recommend_by_need was given, the caller's tables after it, its outcome
  fetch     \* fetch_food_data: its inputs, the upstream responses, its outcome

vars == <<norm, pc, df_raw, pre, reco, fetch>>

----------------------------------------------------------------------------
(* Bounds of the model *)

MaxLen == 3      \* longest input string of _norm
MaxRows == 3     \* most rows of a raw batch
MaxTopN == 3     \* largest top_n requested

----------------------------------------------------------------------------
(* Cell values *)

NoneV == [t |-> "none"]
NaT == [t |-> "nat"]
StrV(s) == [t |-> "str", s |-> s]
IntV(n) == [t |-> "int", n |-> n]
Ts(d) == [t |-> "ts", d |-> d]

Digits == <<"0", "1", "2", "3", "4", "5", "6", "7", "8", "9">>

\* str(v) of Python for the values of the model
PyStr(v) ==
  CASE v.t = "str" -> v.s
    [] v.t = "int" -> <<Digits[v.n + 1]>>
    [] v.t = "none" -> <<"N", "o", "n", "e">>
    [] v.t = "nat" -> <<"N", "a", "T">>
    [] v.t = "ts" -> v.d

----------------------------------------------------------------------------
(* _norm: preprocess.py 105-110 *)

UpperCase == <<"A", "B", "C", "D", "E", "F", "G", "H", "I", "J", "K", "L", "M",
               "N", "O", "P", "Q", "R", "S", "T", "U", "V", "W", "X", "Y", "Z">>
LowerCase == <<"a", "b", "c", "d", "e", "f", "g", "h", "i", "j", "k", "l", "m",
               "n", "o", "p", "q", "r", "s", "t", "u", "v", "w", "x", "y", "z">>

\* the characters \s matches
Whitespace == {" ", "\t", "\n", "\r", "\f"}

LowerChar(c) ==
  IF \E i \in DOMAIN UpperCase : UpperCase[i] = c
  THEN LowerCase[CHOOSE i \in DOMAIN UpperCase : UpperCase[i] = c]
  ELSE c

\* str.lower()
lower(s) == [i \in DOMAIN s |-> LowerChar(s[i])]

RECURSIVE SkipWs(_)
SkipWs(s) ==
  IF s # <<>> /\ Head(s) \in Whitespace THEN SkipWs(Tail(s)) ELSE s

\* re.sub(r"\s\s", " ", s): pairs of whitespace only
RECURSIVE re_sub_ws_pairs(_)
re_sub_ws_pairs(s) ==
  IF s = <<>> THEN <<>>
  ELSE IF Len(s) >= 2 /\ s[1] \in Whitespace /\ s[2] \in Whitespace
       THEN <<" ">> \o re_sub_ws_pairs(Tail(Tail(s)))
  ELSE <<Head(s)>> \o re_sub_ws_pairs(Tail(s))

\* re.sub(r"\s+", " ", s)
RECURSIVE re_sub_ws(_)
re_sub_ws(s) ==
  IF s = <<>> THEN <<>>
  ELSE IF Head(s) \in Whitespace THEN <<" ">> \o re_sub_ws(SkipWs(Tail(s)))
  ELSE <<Head(s)>> \o re_sub_ws(Tail(s))

\* _norm without the None test: str(None).lower() is "none"
_norm_no_none_test(v) == re_sub_ws(lower(PyStr(v)))

_norm(v) ==
  IF v = NoneV THEN <<>>
  ELSE re_sub_ws(lower(PyStr(v)))

----------------------------------------------------------------------------
(* Inputs of _norm *)

NormAlphabet == {"a", "B", " ", "\t", "U+BA5C"}

RECURSIVE SeqsUpTo(_, _)
SeqsUpTo(S, n) ==
  IF n = 0 THEN {<<>>}
  ELSE LET shorter == SeqsUpTo(S, n - 1)
       IN shorter \cup {Append(s, c) : s \in {x \in shorter : Len(x) = n - 1}, c \in S}

NormInputs ==
  {NoneV} \cup {StrV(s) : s \in SeqsUpTo(NormAlphabet, MaxLen)} \cup {IntV(n) : n \in 0..1}

NormIdle == [step |-> "idle"]

----------------------------------------------------------------------------
(* Configuration tables: preprocess.py 7-103 *)

TEXT_CANDIDATES ==
  <<"PRDLST_NM", "PRDT_NM", "RAWMTRL_NM", "RAWMTRL", "RAWMTRL_CN",
    "PRIMARY_FNCLTY", "SKLL_IX_IRDNT_RAWMTRL", "IFTKN_ATNT_MATR_CN">>

META_KEEP ==
  <<"PRDLST_NM", "BSSH_NM", "PRMS_DT", "CHNG_DT", "PRDLST_REPORT_NO", "LCNS_NO">>

\* A pattern (?:a|b|...) is the sequence of its alternatives; an alternative is
\* a sequence of atoms: a literal, \s* or an optional literal (x?).
Lit(s) == [k |-> "lit", s |-> s]
WsStar == [k |-> "ws*"]
Opt(s) == [k |-> "opt", s |-> s]

\* The entries of NUTRI_KEYWORDS that the need profiles "sleep" and "diet" use,
\* in the order of the dict.
KeywordKeys == <<"magnesium", "l_theanine", "melatonin", "garcinia", "green_tea">>

NUTRI_KEYWORDS ==
  [magnesium |->
     << <<Lit(<<"U+B9C8", "U+ADF8", "U+B124", "U+C298">>)>>,
        <<Lit(<<"m", "a", "g", "n", "e", "s", "i", "u", "m">>)>> >>,
   l_theanine |->
     << <<Lit(<<"l">>), Opt(<<"-">>), Lit(<<"U+D14C", "U+C544", "U+B2CC">>)>>,
        <<Lit(<<"t", "h", "e", "a", "n", "i", "n", "e">>)>> >>,
   melatonin |->
     << <<Lit(<<"U+BA5C", "U+B77C", "U+D1A0", "U+B2CC">>)>>,
        <<Lit(<<"m", "e", "l", "a", "t", "o", "n", "i", "n">>)>> >>,
   garcinia |->
     << <<Lit(<<"U+AC00", "U+B974", "U+C2DC", "U+B2C8", "U+C544">>)>>,
        <<Lit(<<"g", "a", "r", "c", "i", "n", "i", "a">>)>> >>,
   green_tea |->
     << <<Lit(<<"U+B179", "U+CC28">>)>>,
        <<Lit(<<"g", "r", "e", "e", "n">>), WsStar, Lit(<<"t", "e", "a">>)>>,
        <<Lit(<<"U+CE74", "U+D14C", "U+D0A8">>)>>,
        <<Lit(<<"c", "a", "t", "e", "c", "h", "i", "n">>)>> >>]

\* need -> sequence of (feature key, weight), in the order of the dict
NEED_TO_NUTRI ==
  [sleep |-> << <<"melatonin", 3>>, <<"l_theanine", 2>>, <<"magnesium", 1>> >>,
   diet |-> << <<"garcinia", 2>>, <<"green_tea", 2>> >>]

----------------------------------------------------------------------------
(* Tables: [cols |-> the set of column names, rows |-> the sequence of rows],
   a row being a function from cols to cell values *)

Range(s) == {s[i] : i \in DOMAIN s}

\* [c for c in names if c in df.columns], as a sequence in the order of names
RECURSIVE PresentOf(_, _)
PresentOf(names, cols) ==
  IF names = <<>> THEN <<>>
  ELSE IF Head(names) \in cols THEN <<Head(names)>> \o PresentOf(Tail(names), cols)
  ELSE PresentOf(Tail(names), cols)

\* df.copy(): a new object holding the same data, owned by the callee
copy_alias(df) == [own |-> FALSE, data |-> df]

copy(df) == [own |-> TRUE, data |-> df]

\* What the caller's table holds after the callee has finished with handle h
AfterCall(before, h) == IF h.own THEN before ELSE h.data

----------------------------------------------------------------------------
(* The regular-expression search of Series.str.contains: preprocess.py 145 *)

RECURSIVE MatchFrom(_, _, _)
MatchFrom(atoms, text, i) ==
  IF atoms = <<>> THEN TRUE
  ELSE LET a == Head(atoms)
           rest == Tail(atoms)
           litAt == i + Len(a.s) - 1 <= Len(text) /\ SubSeq(text, i, i + Len(a.s) - 1) = a.s
       IN CASE a.k = "lit" -> litAt /\ MatchFrom(rest, text, i + Len(a.s))
            [] a.k = "opt" -> (litAt /\ MatchFrom(rest, text, i + Len(a.s)))
                              \/ MatchFrom(rest, text, i)
            [] a.k = "ws*" ->
                 \E n \in 0..(Len(text) - i + 1) :
                    /\ \A j \in i..(i + n - 1) : text[j] \in Whitespace
                    /\ MatchFrom(rest, text, i + n)

\* re.match: the pattern matches at the start of the text only
str_match(text, pattern) ==
  \E a \in DOMAIN pattern : MatchFrom(pattern[a], text, 1)

\* re.search: some alternative matches from some position
str_contains(text, pattern) ==
  \E a \in DOMAIN pattern : \E i \in 1..(Len(text) + 1) : MatchFrom(pattern[a], text, i)

\* .astype(int) of a bool
astype_int(b) == IF b THEN 1 ELSE 0

----------------------------------------------------------------------------
(* _merge_text: preprocess.py 112-117 *)

\* .fillna("").astype(str) of one cell
FillnaStr(v) == IF v = NoneV THEN <<>> ELSE PyStr(v)

RECURSIVE MergeCols(_, _)
MergeCols(cands, row) ==
  IF cands = <<>> THEN <<>>
  ELSE IF Head(cands) \in DOMAIN row
       THEN <<" ">> \o FillnaStr(row[Head(cands)]) \o MergeCols(Tail(cands), row)
       ELSE MergeCols(Tail(cands), row)

\* The merged, normalised text of every row
_merge_text(df) ==
  [i \in DOMAIN df.rows |-> _norm(StrV(MergeCols(TEXT_CANDIDATES, df.rows[i])))]

----------------------------------------------------------------------------
(* preprocess_for_reco: preprocess.py 119-159 *)

IsDigit(c) == c \in Range(Digits)

\* pd.to_datetime(..., errors="coerce") of one cell: a YYYYMMDD string becomes a
\* timestamp, anything else NaT
to_datetime(v) ==
  IF v.t = "str" /\ Len(v.s) = 8
     /\ \A i \in DOMAIN v.s : IsDigit(v.s[i])
  THEN Ts(v.s)
  ELSE NaT

DateCols == {"PRMS_DT", "CHNG_DT"}

\* lines 136-138: df[c] = pd.to_datetime(df[c], errors="coerce")
ParseDates(df) ==
  [df EXCEPT !.rows =
     [i \in DOMAIN df.rows |->
        [c \in df.cols |-> IF c \in DateCols THEN to_datetime(df.rows[i][c])
                           ELSE df.rows[i][c]]]]

\* lines 142-145: one 0/1 indicator per keyword and row
Features(text) ==
  [i \in DOMAIN text |->
     [k \in Range(KeywordKeys) |-> IntV(astype_int(str_contains(text[i], NUTRI_KEYWORDS[k])))]]

RECURSIVE SumOver(_, _)
SumOver(keys, frow) ==
  IF keys = <<>> THEN 0 ELSE frow[Head(keys)].n + SumOver(Tail(keys), frow)

\* a mask that keeps every row
keep_row_ge(frow) == SumOver(KeywordKeys, frow) >= 0

\* line 148: features.sum(axis=1) > 0, for one row
keep_row(frow) == SumOver(KeywordKeys, frow) > 0

\* df.loc[mask].reset_index(drop=True): the rows whose mask is true, in order
RECURSIVE loc_mask(_, _)
loc_mask(rows, mask) ==
  IF rows = <<>> THEN <<>>
  ELSE (IF Head(mask) THEN <<Head(rows)>> ELSE <<>>) \o loc_mask(Tail(rows), Tail(mask))

\* the meta rows taken without the mask
meta_rows_unmasked(rows, mask) == rows

\* line 157: df.loc[mask, keep].reset_index(drop=True)
meta_rows(rows, mask) == loc_mask(rows, mask)

\* lines 154-156
KeepCols(cols) ==
  LET keep == PresentOf(META_KEEP, cols)
  IN IF keep = <<>> THEN PresentOf(<<"PRDLST_NM", "BSSH_NM">>, cols) ELSE keep

Project(row, keep) == [c \in keep |-> row[c]]

preprocess_for_reco(raw, return_meta) ==
  LET h == copy(raw)
      df == ParseDates(h.data)
      text == _merge_text(df)
      features == Features(text)
      mask == [i \in DOMAIN features |-> keep_row(features[i])]
      features_df == [cols |-> Range(KeywordKeys), rows |-> loc_mask(features, mask)]
      keep == Range(KeepCols(df.cols))
      meta_df == [cols |-> keep,
                  rows |-> meta_rows([i \in DOMAIN df.rows |-> Project(df.rows[i], keep)], mask)]
  IN [features_df |-> features_df,
      meta_df |-> IF return_meta THEN meta_df ELSE NoneV,
      raw_after |-> AfterCall(raw, [h EXCEPT !.data = df])]

----------------------------------------------------------------------------
(* recommend_by_need: preprocess.py 213-231 *)

\* features_df[k].fillna(0).astype(int) of one cell
fillna0(v) == IF v = NoneV THEN 0 ELSE v.n

\* the indicator alone, the weight left out
score_term_unweighted(frow, kw) ==
  IF kw[1] \in DOMAIN frow THEN fillna0(frow[kw[1]]) ELSE 0

\* lines 225-226 for one (k, w) and one row
score_term(frow, kw) ==
  IF kw[1] \in DOMAIN frow THEN fillna0(frow[kw[1]]) * kw[2] ELSE 0

\* lines 223-226 for one row: score = 0; for k, w in weights.items(): score += ...
RECURSIVE score_row(_, _)
score_row(frow, weights) ==
  IF weights = <<>> THEN 0
  ELSE score_term(frow, Head(weights)) + score_row(frow, Tail(weights))

Perms(n) == {p \in [1..n -> 1..n] : \A i, j \in 1..n : i # j => p[i] # p[j]}

\* sort_values("score", ascending=False) with the default kind="quicksort":
\* the order of rows with equal score is not specified, so every ordering by
\* non-increasing score is a possible result
sort_values_desc(score) ==
  {p \in Perms(Len(score)) :
     \A i, j \in 1..Len(score) : i < j => score[p[i]] >= score[p[j]]}

Min(a, b) == IF a < b THEN a ELSE b
Max(a, b) == IF a > b THEN a ELSE b

\* one row too few
head_short(rows, n) == SubSeq(rows, 1, Min(Max(n - 1, 0), Len(rows)))

\* DataFrame.head(n): the first n rows; for n < 0 all rows but the last -n
head(rows, n) ==
  IF n >= 0 THEN SubSeq(rows, 1, Min(n, Len(rows)))
  ELSE SubSeq(rows, 1, Max(Len(rows) + n, 0))

\* lines 220-231: the possible results for a profile
Ranked(features_df, meta_df, weights, top_n) ==
  LET score == [i \in DOMAIN features_df.rows |-> score_row(features_df.rows[i], weights)]
      h == copy(meta_df)
      scored == [cols |-> h.data.cols \cup {"score"},
                 rows |-> [i \in DOMAIN h.data.rows |->
                             ("score" :> IntV(score[i])) @@ h.data.rows[i]]]
  IN {[kind |-> "ok",
       out |-> head([j \in DOMAIN scored.rows |-> [idx |-> p[j], row |-> scored.rows[p[j]]]],
                    top_n),
       features_after |-> features_df,
       meta_after |-> AfterCall(meta_df, [h EXCEPT !.data = scored])]
      : p \in sort_values_desc(score)}

\* an unknown need ranked with an empty profile
recommend_by_need_defaulted(features_df, meta_df, need, top_n) ==
  Ranked(features_df, meta_df,
         IF need \in DOMAIN NEED_TO_NUTRI THEN NEED_TO_NUTRI[need] ELSE <<>>, top_n)

\* the set of possible outcomes of one call
recommend_by_need(features_df, meta_df, need, top_n) ==
  IF need \notin DOMAIN NEED_TO_NUTRI
  THEN {[kind |-> "ValueError", out |-> <<>>,
         features_after |-> features_df, meta_after |-> meta_df]}
  ELSE Ranked(features_df, meta_df, NEED_TO_NUTRI[need], top_n)

----------------------------------------------------------------------------
(* Inputs of the pipeline *)

\* Products of the registry: name, raw materials, company, permission date
ProductPool ==
  { [PRDLST_NM |-> StrV(<<"M", "e", "l", "a", "t", "o", "n", "i", "n", " ", " ",
                          "T", "h", "e", "a", "n", "i", "n", "e">>),
     RAWMTRL_NM |-> NoneV,
     BSSH_NM |-> StrV(<<"a", "c", "m", "e">>),
     PRMS_DT |-> StrV(<<"2", "0", "2", "0", "0", "1", "0", "1">>)],
    [PRDLST_NM |-> StrV(<<"p", "l", "a", "i", "n", " ", "w", "a", "t", "e", "r">>),
     RAWMTRL_NM |-> NoneV,
     BSSH_NM |-> StrV(<<"M", "e", "l", "a", "t", "o", "n", "i", "n", " ", "L", "a", "b">>),
     PRMS_DT |-> StrV(<<"n", "/", "a">>)],
    [PRDLST_NM |-> StrV(<<"G", "r", "e", "e", "n", "\t", "T", "e", "a">>),
     RAWMTRL_NM |-> StrV(<<"M", "a", "g", "n", "e", "s", "i", "u", "m">>),
     BSSH_NM |-> StrV(<<"a", "c", "m", "e">>),
     PRMS_DT |-> NoneV],
    [PRDLST_NM |-> StrV(<<"L", "-", "U+D14C", "U+C544", "U+B2CC">>),
     RAWMTRL_NM |-> StrV(<<"G", "A", "R", "C", "I", "N", "I", "A">>),
     BSSH_NM |-> StrV(<<"a", "c", "m", "e">>),
     PRMS_DT |-> StrV(<<"2", "0", "2", "0", "0", "1", "0", "1">>)] }

\* The schema differs between service identifiers
Schemas ==
  { {"PRDLST_NM", "RAWMTRL_NM", "BSSH_NM", "PRMS_DT", "PRDLST_REPORT_NO"},
    {"PRDLST_NM", "BSSH_NM", "PRDLST_REPORT_NO"},
    {"RAWMTRL_NM"} }

\* Row i of a batch carries the report number i
RawRow(product, i, cols) ==
  [c \in cols |-> IF c = "PRDLST_REPORT_NO" THEN IntV(i) ELSE product[c]]

RawBatches ==
  {[cols |-> cols, rows |-> [i \in DOMAIN ps |-> RawRow(ps[i], i, cols)]] :
     ps \in SeqsUpTo(ProductPool, MaxRows), cols \in Schemas}

NeedInputs == {"sleep", "diet", "nonexistent"}
TopNInputs == (0 - 1)..MaxTopN

\* The feature table a caller hands to recommend_by_need: the one preprocess
\* returned, or that one with a column taken out or with a value missing
FeatureArgs(fd) ==
  {fd,
   [cols |-> fd.cols \ {"l_theanine"},
    rows |-> [i \in DOMAIN fd.rows |-> [c \in fd.cols \ {"l_theanine"} |-> fd.rows[i][c]]]],
   [fd EXCEPT !.rows = [i \in DOMAIN fd.rows |->
                          IF i = 1 THEN [fd.rows[i] EXCEPT !["melatonin"] = NoneV]
                          ELSE fd.rows[i]]]}

PreIdle == [step |-> "idle"]
RecoIdle == [step |-> "idle"]
FetchIdle == [step |-> "idle"]
NoTable == [cols |-> {}, rows |-> <<>>]

----------------------------------------------------------------------------
(* The pipeline: preprocess a batch, then answer a query *)

Init ==
  /\ pc = "raw"
  /\ df_raw \in RawBatches
  /\ pre = PreIdle
  /\ reco = RecoIdle
  /\ norm = NormIdle
  /\ fetch = FetchIdle

Preprocess ==
  /\ pc = "raw"
  /\ \E return_meta \in BOOLEAN :
       LET r == preprocess_for_reco(df_raw, return_meta)
       IN /\ pre' = [step |-> "done", given |-> df_raw, return_meta |-> return_meta,
                     features_df |-> r.features_df, meta_df |-> r.meta_df]
          /\ df_raw' = r.raw_after
  /\ pc' = "preprocessed"
  /\ UNCHANGED <<reco, norm, fetch>>

Recommend ==
  /\ pc = "preprocessed"
  /\ pre.return_meta
  /\ \E need \in NeedInputs, top_n \in TopNInputs, f \in FeatureArgs(pre.features_df) :
       \E r \in recommend_by_need(f, pre.meta_df, need, top_n) :
          reco' = [step |-> "done", need |-> need, top_n |-> top_n,
                   features_given |-> f, meta_given |-> pre.meta_df,
                   features_df |-> r.features_after, meta_df |-> r.meta_after,
                   kind |-> r.kind, out |-> r.out]
  /\ pc' = "recommended"
  /\ UNCHANGED <<df_raw, pre, norm, fetch>>

Next == Preprocess \/ Recommend

Spec == Init /\ [][Next]_vars

----------------------------------------------------------------------------
(* What the claims speak of *)

\* w is in the language of the alternative (the whole of w is matched)
RECURSIVE InLanguage(_, _)
InLanguage(atoms, w) ==
  IF atoms = <<>> THEN w = <<>>
  ELSE LET a == Head(atoms)
           rest == Tail(atoms)
           Drop(n) == SubSeq(w, n + 1, Len(w))
           litFirst == Len(a.s) <= Len(w) /\ SubSeq(w, 1, Len(a.s)) = a.s
                       /\ InLanguage(rest, Drop(Len(a.s)))
       IN CASE a.k = "lit" -> litFirst
            [] a.k = "opt" -> litFirst \/ InLanguage(rest, w)
            [] a.k = "ws*" ->
                 \E n \in 0..Len(w) :
                    /\ \A j \in 1..n : w[j] \in Whitespace
                    /\ InLanguage(rest, Drop(n))

\* Some substring of the text is in the language of some alternative
MatchesSomewhere(pattern, text) ==
  \E a \in DOMAIN pattern :
     \E i \in 1..(Len(text) + 1) : \E j \in (i - 1)..Len(text) :
        InLanguage(pattern[a], SubSeq(text, i, j))

\* The strictly increasing sequences of m positions among 1..n
Increasing(m, n) ==
  {s \in [1..m -> 1..n] : \A a, b \in 1..m : a < b => s[a] < s[b]}

\* The positions in S, in increasing order
InOrder(S, n) ==
  CHOOSE s \in Increasing(Cardinality(S), n) : Range(s) = S

\* The keyword indicators of the rows of the batch given to preprocess_for_reco
GivenIndicators == Features(_merge_text(pre.given))

HasHit(frow) == \E k \in Range(KeywordKeys) : frow[k] = IntV(1)

HitPositions ==
  InOrder({i \in DOMAIN GivenIndicators : HasHit(GivenIndicators[i])}, Len(pre.given.rows))

\* C1: a row of the batch is in the feature table iff one of its keyword
\* indicators is 1: the feature table holds the indicator rows of exactly the
\* rows with a hit, in their order, whatever the other columns hold.
FilteringLaw ==
  pc = "preprocessed" =>
    /\ Len(pre.features_df.rows) = Len(HitPositions)
    /\ \A j \in DOMAIN pre.features_df.rows :
          pre.features_df.rows[j] = GivenIndicators[HitPositions[j]]
    /\ (pre.return_meta /\ "PRDLST_REPORT_NO" \in pre.meta_df.cols) =>
          [j \in DOMAIN pre.meta_df.rows |-> pre.meta_df.rows[j]["PRDLST_REPORT_NO"].n]
            = HitPositions

\* A batch where a row without a hit, whose company name holds a keyword, was
\* dropped and a row with a hit was kept
FilteringWitness ==
  /\ pc = "preprocessed"
  /\ Len(pre.given.rows) = 2
  /\ Len(pre.features_df.rows) = 1
  /\ \E i \in DOMAIN pre.given.rows :
        /\ "BSSH_NM" \in pre.given.cols
        /\ str_contains(_norm(pre.given.rows[i]["BSSH_NM"]), NUTRI_KEYWORDS["melatonin"])
        /\ ~HasHit(GivenIndicators[i])

\* C2: with return_meta the feature table and the meta table have the same
\* number of rows, and row j of each comes from the same row of the batch, the
\* rows kept being in the order of the batch.
AlignmentInvariant ==
  (pc = "preprocessed" /\ pre.return_meta) =>
    /\ Len(pre.features_df.rows) = Len(pre.meta_df.rows)
    /\ \E pos \in Increasing(Len(pre.features_df.rows), Len(pre.given.rows)) :
          \A j \in DOMAIN pos :
             /\ pre.features_df.rows[j] = GivenIndicators[pos[j]]
             /\ pre.meta_df.rows[j]
                  = Project(ParseDates(pre.given).rows[pos[j]], pre.meta_df.cols)

\* The first row of the batch was dropped, the second kept: meta row 1 is row 2
\* of the batch
AlignmentWitness ==
  /\ pc = "preprocessed" /\ pre.return_meta
  /\ Len(pre.given.rows) = 2
  /\ Len(pre.meta_df.rows) = 1
  /\ "PRDLST_REPORT_NO" \in pre.meta_df.cols
  /\ pre.meta_df.rows[1]["PRDLST_REPORT_NO"] = IntV(2)

\* C7: every indicator of the feature table is 0 or 1, and it is 1 exactly when
\* the pattern of its keyword matches somewhere in the merged normalised text of
\* the row it comes from.
BinaryIndicator ==
  pc = "preprocessed" =>
    LET text == _merge_text(pre.given)
        matched == {i \in DOMAIN text :
                      \E k \in Range(KeywordKeys) : MatchesSomewhere(NUTRI_KEYWORDS[k], text[i])}
        from == InOrder(matched, Len(text))
    IN /\ Len(pre.features_df.rows) = Len(from)
       /\ \A j \in DOMAIN pre.features_df.rows : \A k \in Range(KeywordKeys) :
             /\ pre.features_df.rows[j][k] \in {IntV(0), IntV(1)}
             /\ pre.features_df.rows[j][k] = IntV(1)
                  <=> MatchesSomewhere(NUTRI_KEYWORDS[k], text[from[j]])

\* A feature row with a 1 matched across whitespace in the middle of the text
\* and a 0 next to it
BinaryIndicatorWitness ==
  /\ pc = "preprocessed"
  /\ \E j \in DOMAIN pre.features_df.rows :
        /\ pre.features_df.rows[j]["green_tea"] = IntV(1)
        /\ pre.features_df.rows[j]["magnesium"] = IntV(1)
        /\ pre.features_df.rows[j]["melatonin"] = IntV(0)

----------------------------------------------------------------------------
(* Claims about recommend_by_need *)

\* weight times indicator of one entry of a profile, an absent key or a missing
\* value counting 0
ProfileTerm(frow, kw) ==
  IF kw[1] \in DOMAIN frow /\ frow[kw[1]] # NoneV THEN kw[2] * frow[kw[1]].n ELSE 0

RECURSIVE ProfileSum(_, _)
ProfileSum(frow, entries) ==
  IF entries = {} THEN 0
  ELSE LET kw == CHOOSE e \in entries : TRUE
       IN ProfileTerm(frow, kw) + ProfileSum(frow, entries \ {kw})

\* The sum over the (feature key, weight) pairs of the profile of the need
ProfileScore(frow, need) == ProfileSum(frow, Range(NEED_TO_NUTRI[need]))

ScoreOf(o) == o.row["score"].n

\* C3: for a known need the score of each returned row is the weighted sum of
\* the profile over the feature row at the same position, an absent key or a
\* missing value counting 0; the row is the meta row of that position; every
\* score is a non-negative integer.
ScoreFormula ==
  (reco.step = "done" /\ reco.kind = "ok") =>
    \A j \in DOMAIN reco.out :
       LET o == reco.out[j]
       IN /\ ScoreOf(o) = ProfileScore(reco.features_given.rows[o.idx], reco.need)
          /\ ScoreOf(o) \in Nat
          /\ Project(o.row, reco.meta_given.cols) = reco.meta_given.rows[o.idx]

\* need "sleep" on a feature row {melatonin:1, l_theanine:1, magnesium:0} gave 5
ScoreWitness ==
  /\ reco.step = "done" /\ reco.kind = "ok" /\ reco.need = "sleep"
  /\ \E j \in DOMAIN reco.out :
        LET frow == reco.features_given.rows[reco.out[j].idx]
        IN /\ "l_theanine" \in DOMAIN frow
           /\ frow["melatonin"] = IntV(1) /\ frow["l_theanine"] = IntV(1)
           /\ frow["magnesium"] = IntV(0)
           /\ ScoreOf(reco.out[j]) = 5

\* C4: a need that is not in NEED_TO_NUTRI raises and returns nothing, whatever
\* the tables and top_n.
UnknownNeedRaises ==
  (reco.step = "done" /\ reco.need \notin DOMAIN NEED_TO_NUTRI) =>
    reco.kind = "ValueError" /\ reco.out = <<>>

\* An unknown need was asked over a table with rows and a positive top_n
UnknownNeedWitness ==
  /\ reco.step = "done" /\ reco.need = "nonexistent"
  /\ Len(reco.meta_given.rows) = 2 /\ reco.top_n = 2

\* C5: two rows of equal score are returned in the order they have in the
\* input tables.
TieStability ==
  (reco.step = "done" /\ reco.kind = "ok") =>
    \A a, b \in DOMAIN reco.out :
       (a < b /\ ScoreOf(reco.out[a]) = ScoreOf(reco.out[b]))
         => reco.out[a].idx < reco.out[b].idx

Ordered ==
  \A a, b \in DOMAIN reco.out : a < b => ScoreOf(reco.out[a]) >= ScoreOf(reco.out[b])

NoBetterOmitted ==
  \A i \in DOMAIN reco.features_given.rows :
     (\A j \in DOMAIN reco.out : reco.out[j].idx # i) =>
        \A j \in DOMAIN reco.out :
           ProfileScore(reco.features_given.rows[i], reco.need) <= ScoreOf(reco.out[j])

\* C6 as stated: for a known need the output has exactly min(top_n, rows) rows,
\* by non-increasing score, no omitted row scoring higher than a returned one.
TopNSelection ==
  (reco.step = "done" /\ reco.kind = "ok") =>
    /\ Len(reco.out) = Min(reco.top_n, Len(reco.meta_given.rows))
    /\ Ordered
    /\ NoBetterOmitted

\* C6 amended: that holds for top_n >= 0; for top_n < 0 the output is the
\* ranking without its last -top_n rows.
TopNSelectionNonNegative ==
  (reco.step = "done" /\ reco.kind = "ok") =>
    /\ reco.top_n >= 0 => Len(reco.out) = Min(reco.top_n, Len(reco.meta_given.rows))
    /\ reco.top_n < 0 => Len(reco.out) = Max(Len(reco.meta_given.rows) + reco.top_n, 0)
    /\ \A a, b \in DOMAIN reco.out : a # b => reco.out[a].idx # reco.out[b].idx
    /\ Ordered
    /\ NoBetterOmitted

\* top_n = 1 over two rows of different score: the better one alone is returned
TopNWitness ==
  /\ reco.step = "done" /\ reco.kind = "ok"
  /\ reco.top_n = 1 /\ Len(reco.meta_given.rows) = 2 /\ Len(reco.out) = 1
  /\ reco.out[1].idx = 2
  /\ \E i \in DOMAIN reco.features_given.rows :
        ProfileScore(reco.features_given.rows[i], reco.need) < ScoreOf(reco.out[1])

\* C8: the tables of the caller are as they were: the raw table after
\* preprocess_for_reco, the feature and meta tables after recommend_by_need,
\* whether it returned or raised.
CallerTablesUnchanged ==
  /\ pre.step = "done" => df_raw = pre.given
  /\ reco.step = "done" =>
       /\ reco.features_df = reco.features_given
       /\ reco.meta_df = reco.meta_given
       /\ "score" \notin reco.meta_df.cols

\* Both calls were made: dates were parsed from the raw table and a ranking
\* with a score column was returned
UnchangedWitness ==
  /\ pc = "recommended" /\ reco.kind = "ok"
  /\ "PRMS_DT" \in df_raw.cols
  /\ \E i \in DOMAIN df_raw.rows : to_datetime(df_raw.rows[i]["PRMS_DT"]) # NaT
  /\ Len(reco.out) >= 1

----------------------------------------------------------------------------
(* _norm applied, and applied again to its result *)

Idle ==
  /\ pc = "idle"
  /\ df_raw = NoTable
  /\ pre = PreIdle
  /\ reco = RecoIdle

InitNorm ==
  /\ norm \in {[step |-> "input", s |-> v] : v \in NormInputs}
  /\ Idle
  /\ fetch = FetchIdle

NormOnce ==
  /\ norm.step = "input"
  /\ norm' = [step |-> "once", s |-> norm.s, once |-> _norm(norm.s)]
  /\ UNCHANGED <<pc, df_raw, pre, reco, fetch>>

NormTwice ==
  /\ norm.step = "once"
  /\ norm' = [step |-> "twice", s |-> norm.s, once |-> norm.once,
              twice |-> _norm(StrV(norm.once))]
  /\ UNCHANGED <<pc, df_raw, pre, reco, fetch>>

NextNorm == NormOnce \/ NormTwice

SpecNorm == InitNorm /\ [][NextNorm]_vars

\* C9: _norm(None) is the empty string, and _norm(_norm(s)) = _norm(s) for
\* every input s.
NormIdempotent ==
  /\ (norm.step \in {"once", "twice"} /\ norm.s = NoneV) => norm.once = <<>>
  /\ norm.step = "twice" => norm.twice = norm.once

\* _norm was applied twice to a string it changes: an upper-case letter and a
\* run of whitespace
NormWitness ==
  /\ norm.step = "twice"
  /\ norm.s.t = "str"
  /\ Len(norm.once) < Len(norm.s.s)
  /\ \E i \in DOMAIN norm.s.s : norm.s.s[i] = "B"
  /\ \E i \in DOMAIN norm.once : norm.once[i] = "b"

----------------------------------------------------------------------------
(* fetch_food_data: api.py 19-53 *)

\* What the upstream can answer: a status and a body.  The bodies are an HTML
\* error page, a body that opens with "{" and is not JSON, a JSON object without
\* the service key, the service object without "row", and the service object
\* with rows.
Statuses == {200, 404, 500}
Bodies == {"html", "truncated_json", "error_object", "service_without_row", "service_with_rows"}
Responses == [status : Statuses, body : Bodies]

\* text.startswith("{")
StartsWithBrace(body) == body # "html"
\* r.json() returns
JsonParses(body) == body \notin {"html", "truncated_json"}
\* service_id in data
HasService(body) == body \in {"service_without_row", "service_with_rows"}
\* "row" in data[service_id]
HasRow(body) == body = "service_with_rows"

Raised(kind, url, preview, requests) ==
  [kind |-> kind, url |-> url, preview |-> preview, requests |-> requests]

Table(source, body, requests) ==
  [kind |-> "table", source |-> source, rows |-> HasRow(body), requests |-> requests]

\* line 39 with "and" for "or"
sample_rejected_and(resp) == resp.status # 200 /\ ~StartsWithBrace(resp.body)

\* line 39: status2 != 200 or (not text2.startswith("{"))
sample_rejected(resp) == resp.status # 200 \/ ~StartsWithBrace(resp.body)

\* lines 36-53
SamplePath(sample, requests) ==
  IF sample_rejected(sample) THEN Raised("RuntimeError", "sample", TRUE, requests)
  ELSE IF ~JsonParses(sample.body) THEN Raised("JSONDecodeError", "none", FALSE, requests)
  ELSE IF ~HasService(sample.body) THEN Raised("RuntimeError", "none", FALSE, requests)
  ELSE Table("sample", sample.body, requests)

fetch_food_data(api_key, real, sample, use_sample_fallback) ==
  IF api_key
  THEN IF real.status = 200 /\ StartsWithBrace(real.body) /\ ~JsonParses(real.body)
       THEN Raised("JSONDecodeError", "none", FALSE, <<"real">>)
       ELSE IF real.status = 200 /\ StartsWithBrace(real.body)
               /\ HasService(real.body) /\ HasRow(real.body)
       THEN Table("real", real.body, <<"real">>)
       ELSE IF ~use_sample_fallback
       THEN Raised("RuntimeError", "real", TRUE, <<"real">>)
       ELSE SamplePath(sample, <<"real", "sample">>)
  ELSE SamplePath(sample, <<"sample">>)

InitFetch ==
  /\ fetch \in {[step |-> "call", api_key |-> k, use_sample_fallback |-> f,
                 real |-> r, sample |-> s] :
                  k \in BOOLEAN, f \in BOOLEAN, r \in Responses, s \in Responses}
  /\ Idle
  /\ norm = NormIdle

FetchFoodData ==
  /\ fetch.step = "call"
  /\ fetch' = [fetch EXCEPT !.step = "done"]
              @@ [result |-> fetch_food_data(fetch.api_key, fetch.real, fetch.sample,
                                             fetch.use_sample_fallback)]
  /\ UNCHANGED <<norm, pc, df_raw, pre, reco>>

NextFetch == FetchFoodData

SpecFetch == InitFetch /\ [][NextFetch]_vars

\* A response that is not 200, is not JSON, or lacks the service key
BadResponse(resp) ==
  resp.status # 200 \/ ~StartsWithBrace(resp.body) \/ ~JsonParses(resp.body)
  \/ ~HasService(resp.body)

ResponseTo(request) == IF request = "real" THEN fetch.real ELSE fetch.sample

====
